---- MODULE Spec2Model ----
(***************************************************************************)
(* Gift cards (gift_card.py) and their issuance from sales (sale.py).      *)
(*                                                                         *)
(* Records are kept as functions from database ids to field records.       *)
(* None is the null of an id or number field, Absent marks a key that a    *)
(* values/default dictionary does not hold.  A failing handler raises, the *)
(* transaction is rolled back, and only `last` records the error.          *)
(***************************************************************************)
EXTENDS Integers, Sequences, FiniteSets, TLC

VARIABLES
    cards,              \* gift_card.gift_card: id -> fields
    nextId,             \* the id the next gift card gets
    seq,                \* next value of the configured number sequence
    txns,               \* payment_gateway.transaction: id -> fields
    sales,              \* sale.sale: id -> state
    lines,              \* sale.line: id -> fields
    liability_account,  \* gift_card.configuration(1).liability_account
    last,               \* the last handler run: its name, the cards copied or deleted, its error
    result              \* the last get_invoice_line call and what it returned

vars == <<cards, nextId, seq, txns, sales, lines, liability_account, last, result>>

----------------------------------------------------------------------------
(* Bounds of the model *)

MaxCards == 2
MaxTxns == 2
MaxLines == 3

----------------------------------------------------------------------------
(* Values *)

None == 0
Absent == -1
NoState == "absent"
NoError == "ok"

CardStates == {"draft", "active", "canceled", "used"}

SaleStates == {"draft", "quotation", "confirmed", "processing", "done", "cancel"}

SaleIds == {1, 2}

TxnStates == {"draft", "authorized", "posted"}

TxnAmounts == {10, 20}

CardAmounts == {50}

ManualNumbers == {2}

LiabilityAccounts == {None, 7}

InvoiceTypes == {"out_invoice", "out_credit_note", "in_invoice"}

\* sale line quantities are floats; the model holds them as a count of halves
Quantities == {-3, 3, 4}

Max(a, b) == IF a >= b THEN a ELSE b

\* ascending sequence of the elements of a finite set of integers
RECURSIVE SortedSeq(_)
SortedSeq(S) ==
    IF S = {} THEN << >>
    ELSE LET m == CHOOSE x \in S : \A y \in S : x <= y
         IN  <<m>> \o SortedSeq(S \ {m})

SeqRange(s) == {s[i] : i \in DOMAIN s}

\* the non-empty sequences over S without repetition
DistinctSeqs(S) ==
    {s \in UNION {[1 .. k -> S] : k \in 1 .. Cardinality(S)} :
        \A i, j \in DOMAIN s : s[i] = s[j] => i = j}

\* Python's int() of a float given in halves: truncation toward zero
IntOf(h) == IF h >= 0 THEN h \div 2 ELSE -((-h) \div 2)

\* len(range(0, n))
RangeLen(n) == IF n > 0 THEN n ELSE 0

----------------------------------------------------------------------------
(* GiftCard *)

\* a fifth pair, from active back to draft
TransitionsWithActiveDraft ==
    { <<"draft", "active">>,
      <<"active", "canceled">>,
      <<"draft", "canceled">>,
      <<"canceled", "draft">>,
      <<"active", "draft">> }

\* the pair from active to canceled left out
TransitionsWithoutActiveCanceled ==
    { <<"draft", "active">>,
      <<"draft", "canceled">>,
      <<"canceled", "draft">> }

\* _transitions
Transitions ==
    { <<"draft", "active">>,
      <<"active", "canceled">>,
      <<"draft", "canceled">>,
      <<"canceled", "draft">> }

default_state == "draft"

\* the search without its gift_card clause
PaymentTransactionSearchAnyCard(st, id) ==
    SortedSeq({t \in DOMAIN txns : txns[t].state = st})

\* PaymentTransaction.search([('state', '=', st), ('gift_card', '=', id)])
PaymentTransactionSearch(st, id) ==
    SortedSeq({t \in DOMAIN txns : txns[t].state = st /\ txns[t].gift_card = id})

\* sum([t.amount for t in found])
RECURSIVE SumAmounts(_)
SumAmounts(found) ==
    IF found = << >> THEN 0
    ELSE txns[Head(found)].amount + SumAmounts(Tail(found))

get_amount(id, name) ==
    LET amount_authorized == SumAmounts(PaymentTransactionSearch("authorized", id))
        amount_captured   == SumAmounts(PaymentTransactionSearch("posted", id))
    IN  CASE name = "amount_authorized" -> amount_authorized
          [] name = "amount_captured"   -> amount_captured
          [] name = "amount_available"  ->
                cards[id].amount - amount_authorized - amount_captured

\* number of the entries before position i that draw from the sequence
RECURSIVE Draws(_, _)
Draws(vlist, i) ==
    IF i = 0 THEN 0
    ELSE Draws(vlist, i - 1) + (IF vlist[i].number \in {None, Absent} THEN 1 ELSE 0)

\* create, lines 174-179: the number of each entry, from the sequence when missing
NumberedValues(vlist, sq) ==
    [i \in DOMAIN vlist |->
        IF vlist[i].number \in {None, Absent}
        THEN [vlist[i] EXCEPT !.number = sq + Draws(vlist, i - 1)]
        ELSE vlist[i]]

\* the constraint checked among the rows to insert only
NumberUniqInBatch(cs, vals) ==
    \A i, j \in DOMAIN vals : vals[i].number = vals[j].number => i = j

\* the UNIQUE(number) constraint over the stored cards and the rows to insert
NumberUniq(cs, vals) ==
    /\ \A i, j \in DOMAIN vals : vals[i].number = vals[j].number => i = j
    /\ \A i \in DOMAIN vals : \A c \in DOMAIN cs : cs[c].number # vals[i].number

\* a stored card from a dictionary of values, field defaults applied
NewCard(v) ==
    [ number    |-> v.number,
      amount    |-> v.amount,
      state     |-> IF v.state = NoState THEN default_state ELSE v.state,
      sale_line |-> IF v.sale_line = Absent THEN None ELSE v.sale_line,
      message   |-> v.message ]

\* GiftCard.create on the database (cs, sq, nid): the database after it, the ids
\* of the new cards, or the constraint's error
GiftCardCreate(cs, sq, nid, vlist) ==
    LET vals == NumberedValues(vlist, sq)
        n    == Len(vlist)
        sq2  == sq + Draws(vlist, n)
    IN  IF NumberUniq(cs, vals)
        THEN [ err    |-> NoError,
               cards  |-> [c \in DOMAIN cs \cup (nid .. nid + n - 1) |->
                             IF c \in DOMAIN cs THEN cs[c]
                             ELSE NewCard(vals[c - nid + 1])],
               seq    |-> sq2,
               nextId |-> nid + n,
               new    |-> nid .. nid + n - 1 ]
        ELSE [ err    |-> "number_uniq",
               cards  |-> cs,
               seq    |-> sq2,
               nextId |-> nid,
               new    |-> {} ]

\* Workflow.transition(target) around an empty method body
WorkflowTransition(cs, batch, target) ==
    [c \in DOMAIN cs |->
        IF c \in batch /\ <<cs[c].state, target>> \in Transitions
        THEN [cs[c] EXCEPT !.state = target]
        ELSE cs[c]]

\* the default dictionary with the state left to the caller and the original
CopyDefaultKeepsState(default) ==
    [default EXCEPT !.number = None,
                    !.sale_line = None,
                    !.payment_transactions = None]

\* copy, lines 184-190: the default dictionary handed to the base copy
CopyDefault(default) ==
    [default EXCEPT !.number = None,
                    !.sale_line = None,
                    !.state = default_state,
                    !.payment_transactions = None]

\* ModelStorage.copy of one card: the values handed to create
CopyValues(cs, id, default) ==
    [ number    |-> IF default.number = Absent THEN cs[id].number ELSE default.number,
      amount    |-> cs[id].amount,
      state     |-> IF default.state = NoState THEN cs[id].state ELSE default.state,
      sale_line |-> IF default.sale_line = Absent THEN cs[id].sale_line
                    ELSE default.sale_line,
      message   |-> cs[id].message ]

\* the transactions after a copy of card id into card new: a One2Many that is not
\* reset is copied with the record
CopyTransactions(tx, id, new, default) ==
    IF default.payment_transactions = None THEN tx
    ELSE LET own == SortedSeq({t \in DOMAIN tx : tx[t].gift_card = id})
             top == Max(0, IF DOMAIN tx = {} THEN 0
                           ELSE CHOOSE m \in DOMAIN tx : \A t \in DOMAIN tx : t <= m)
         IN  [t \in DOMAIN tx \cup (top + 1 .. top + Len(own)) |->
                IF t \in DOMAIN tx THEN tx[t]
                ELSE [tx[own[t - top]] EXCEPT !.gift_card = new]]

\* GiftCard.copy of one card on the database (cs, sq, nid)
GiftCardCopy(cs, sq, nid, id, default) ==
    GiftCardCreate(cs, sq, nid, <<CopyValues(cs, id, CopyDefault(default))>>)

\* the test passing as soon as one card of the batch is not active
DeletionAllowedForSome(cs, batch) == \E c \in batch : cs[c].state # "active"

\* delete, lines 230-232
DeletionAllowed(cs, batch) == \A c \in batch : cs[c].state # "active"

----------------------------------------------------------------------------
(* SaleLine and Sale *)

\* sale.line's amount: quantity * unit_price (quantity is held in halves)
LineAmount(l) == (lines[l].unit_price * lines[l].quantity) \div 2

\* the One2Many gift_cards of a line, read from the cards cs
LineGiftCards(cs, l) == {c \in DOMAIN cs : cs[c].sale_line = l}

\* the super get_invoice_line of the sale module
RevenueAccount == 9

BaseGetInvoiceLine(l, invoice_type) ==
    IF lines[l].type # "line" \/ (invoice_type = "out_invoice") # (lines[l].quantity >= 0)
         \/ lines[l].invoice_lines
    THEN [err |-> NoError, value |-> << >>]
    ELSE [err |-> NoError,
          value |-> << [ type        |-> lines[l].type,
                         description |-> lines[l].description,
                         note        |-> lines[l].note,
                         origin      |-> l,
                         account     |-> RevenueAccount,
                         unit_price  |-> lines[l].unit_price,
                         quantity    |-> IF lines[l].quantity >= 0 THEN lines[l].quantity
                                         ELSE -lines[l].quantity ] >>]

\* the test of line 55 with `and` in the place of `or`
BilledHereOnEither(l, invoice_type) ==
    ~((~lines[l].is_gift_card) /\ (invoice_type # "out_invoice"))

\* get_invoice_line, line 55
BilledHere(l, invoice_type) ==
    ~((~lines[l].is_gift_card) \/ (invoice_type # "out_invoice"))

get_invoice_line(l, invoice_type) ==
    IF ~BilledHere(l, invoice_type) THEN BaseGetInvoiceLine(l, invoice_type)
    ELSE IF lines[l].invoice_lines THEN [err |-> NoError, value |-> << >>]
    ELSE LET invoice_line ==
                 [ type        |-> lines[l].type,
                   description |-> lines[l].description,
                   note        |-> lines[l].note,
                   origin      |-> l,
                   account     |-> liability_account,
                   unit_price  |-> lines[l].unit_price,
                   quantity    |-> lines[l].quantity ]
         IN  IF invoice_line.account = None
             THEN [err |-> "liability_account_missing", value |-> << >>]
             ELSE [err |-> NoError, value |-> <<invoice_line>>]

\* SaleLine.create_gift_cards, lines 113-117: the values handed to GiftCard.create
GiftCardValues(l) ==
    [each \in 1 .. RangeLen(IntOf(lines[l].quantity)) |->
        [ number    |-> Absent,
          amount    |-> LineAmount(l),
          state     |-> NoState,
          sale_line |-> l,
          message   |-> lines[l].message ]]

\* the test without the check of line 109 for cards created already
IssuesCardsAgain(cs, l) == lines[l].is_gift_card

\* SaleLine.create_gift_cards, lines 105-111: whether the line issues cards
IssuesCards(cs, l) == lines[l].is_gift_card /\ LineGiftCards(cs, l) = {}

\* SaleLine.create_gift_cards on the database db = [err, cards, seq, nextId, new]
LineCreateGiftCards(db, l) ==
    IF db.err # NoError \/ ~IssuesCards(db.cards, l) THEN db
    ELSE LET r == GiftCardCreate(db.cards, db.seq, db.nextId, GiftCardValues(l))
         IN  IF r.err # NoError THEN [r EXCEPT !.new = {}]
             ELSE [r EXCEPT !.cards = WorkflowTransition(r.cards, r.new, "active"),
                            !.new = db.new \cup r.new]

\* Sale.create_gift_cards: the lines the loop of line 133 visits
GiftCardLines(s) == SortedSeq({l \in DOMAIN lines : lines[l].sale = s /\ lines[l].is_gift_card})

RECURSIVE CreateForLines(_, _)
CreateForLines(db, ls) ==
    IF ls = << >> THEN db
    ELSE CreateForLines(LineCreateGiftCards(db, Head(ls)), Tail(ls))

\* the states of line 146 with quotation among them
IssuingStatesWithQuotation == {"quotation", "confirmed", "processing", "done"}

\* Sale.process, line 146
IssuingStates == {"confirmed", "processing", "done"}

\* Sale.process, lines 145-148, over the sales as the base step left them
RECURSIVE ProcessSales(_, _, _)
ProcessSales(db, batch, after) ==
    IF batch = << >> THEN db
    ELSE ProcessSales(
            IF after[Head(batch)] \notin IssuingStates THEN db
            ELSE CreateForLines(db, GiftCardLines(Head(batch))),
            Tail(batch), after)

\* the states super(Sale, cls).process can leave a sale in
BaseProcessOutcomes(st) ==
    CASE st = "confirmed"  -> {"confirmed", "processing", "done"}
      [] st = "processing" -> {"processing", "done"}
      [] OTHER             -> {st}

\* SaleLine.copy, lines 39-41
LineCopyDefault(default) == [default EXCEPT !.gift_cards = None]

----------------------------------------------------------------------------
(* Inputs *)

\* the dictionaries a caller hands to GiftCard.create
CreateValues ==
    [ number    : {Absent} \cup ManualNumbers,
      amount    : CardAmounts,
      state     : {NoState, "used"},
      sale_line : {Absent},
      message   : {"hello"} ]

\* one dictionary, or two that differ in the number at most
CreateVLists ==
    {<<v>> : v \in CreateValues}
    \cup {<<v, [v EXCEPT !.number = n]>> : v \in CreateValues, n \in {Absent} \cup ManualNumbers}

\* the default dictionaries a caller hands to GiftCard.copy
CopyDefaults ==
    { [number |-> Absent, sale_line |-> Absent, state |-> NoState,
       payment_transactions |-> Absent],
      [number |-> 2, sale_line |-> 1, state |-> "active",
       payment_transactions |-> Absent],
      [number |-> None, sale_line |-> None, state |-> "used",
       payment_transactions |-> None] }

\* the default dictionaries a caller hands to SaleLine.copy
LineCopyDefaults == [ sale : {Absent, 2}, gift_cards : {Absent, None} ]

Batches == SUBSET (DOMAIN cards) \ {{}}

Ran(op, arg, err) == [op |-> op, arg |-> arg, err |-> err]

NoResult == [line |-> None, invoice_type |-> "", err |-> NoError, value |-> << >>]

InitLine(s, gc, q, n) ==
    [ sale          |-> s,
      type          |-> "line",
      description   |-> IF gc THEN "Gift Card" ELSE "Product",
      note          |-> "note",
      is_gift_card  |-> gc,
      quantity      |-> q,
      unit_price    |-> 10 * n,
      message       |-> IF n = 1 THEN "happy birthday" ELSE "thank you",
      invoice_lines |-> FALSE ]

----------------------------------------------------------------------------
(* No gift card yet, and two quoted sales with a line each *)

Init ==
    /\ cards = << >>
    /\ nextId = 1
    /\ seq = 1
    /\ txns = << >>
    /\ sales = [s \in SaleIds |-> "quotation"]
    /\ \E q \in Quantities : lines = <<InitLine(1, TRUE, q, 1), InitLine(2, FALSE, 2, 2)>>
    /\ liability_account = None
    /\ last = Ran("init", {}, NoError)
    /\ result = NoResult

----------------------------------------------------------------------------
(* GiftCard handlers *)

\* what a handler leaves in the database: on an error the transaction is rolled
\* back
Commit(op, arg, r) ==
    /\ r.nextId <= MaxCards + 1
    /\ IF r.err = NoError
       THEN /\ cards' = r.cards
            /\ nextId' = r.nextId
            /\ seq' = r.seq
       ELSE /\ cards' = cards
            /\ nextId' = nextId
            /\ seq' = seq
    /\ last' = Ran(op, arg, r.err)

Create(vlist) ==
    /\ \A i \in DOMAIN vlist : vlist[i].sale_line \in {Absent} \cup DOMAIN lines
    /\ Commit("create", {}, GiftCardCreate(cards, seq, nextId, vlist))
    /\ UNCHANGED <<txns, sales, lines, liability_account, result>>

Copy(id, default) ==
    LET r == GiftCardCopy(cards, seq, nextId, id, default)
    IN  /\ Commit("copy", {id}, r)
        /\ txns' = IF r.err = NoError
                   THEN CopyTransactions(txns, id, nextId, CopyDefault(default))
                   ELSE txns
        /\ DOMAIN txns' \subseteq 1 .. MaxTxns
        /\ UNCHANGED <<sales, lines, liability_account, result>>

Transition(op, batch, target) ==
    /\ cards' = WorkflowTransition(cards, batch, target)
    /\ last' = Ran(op, {}, NoError)
    /\ UNCHANGED <<nextId, seq, txns, sales, lines, liability_account, result>>

Activate(batch) == Transition("activate", batch, "active")

Draft(batch) == Transition("draft", batch, "draft")

Cancel(batch) == Transition("cancel", batch, "canceled")

\* ModelStorage.delete: the rows go, and the references to them are set to null
BaseDelete(batch) ==
    /\ cards' = [c \in DOMAIN cards \ batch |-> cards[c]]
    /\ txns' = [t \in DOMAIN txns |->
                  IF txns[t].gift_card \in batch
                  THEN [txns[t] EXCEPT !.gift_card = None] ELSE txns[t]]

Delete(batch) ==
    /\ IF DeletionAllowed(cards, batch)
       THEN /\ BaseDelete(batch)
            /\ last' = Ran("delete", batch, NoError)
       ELSE /\ UNCHANGED <<cards, txns>>
            /\ last' = Ran("delete", batch, "deletion_not_allowed")
    /\ UNCHANGED <<nextId, seq, sales, lines, liability_account, result>>

----------------------------------------------------------------------------
(* Payment transactions, written by the payment gateway *)

TxnCreate(card, amount) ==
    /\ Cardinality(DOMAIN txns) < MaxTxns
    /\ txns' = [t \in DOMAIN txns \cup {Cardinality(DOMAIN txns) + 1} |->
                  IF t \in DOMAIN txns THEN txns[t]
                  ELSE [gift_card |-> card, state |-> "draft", amount |-> amount]]
    /\ last' = Ran("transaction", {}, NoError)
    /\ UNCHANGED <<cards, nextId, seq, sales, lines, liability_account, result>>

TxnWrite(t, st) ==
    /\ txns[t].state # st
    /\ txns' = [txns EXCEPT ![t].state = st]
    /\ last' = Ran("transaction", {}, NoError)
    /\ UNCHANGED <<cards, nextId, seq, sales, lines, liability_account, result>>

----------------------------------------------------------------------------
(* Sale handlers *)

\* Sale.confirm of the sale module
Confirm(s) ==
    /\ sales[s] = "quotation"
    /\ sales' = [sales EXCEPT ![s] = "confirmed"]
    /\ last' = Ran("confirm", {}, NoError)
    /\ UNCHANGED <<cards, nextId, seq, txns, lines, liability_account, result>>

\* the gift cards of a copied line, copied with it when the One2Many is not reset
RECURSIVE CopyLineCards(_, _, _)
CopyLineCards(db, cs, new) ==
    IF cs = << >> \/ db.err # NoError THEN db
    ELSE LET r == GiftCardCopy(db.cards, db.seq, db.nextId, Head(cs),
                               [ number |-> Absent, sale_line |-> new, state |-> NoState,
                                 payment_transactions |-> Absent ])
         IN  CopyLineCards([r EXCEPT !.new = db.new \cup r.new], Tail(cs), new)

SaleLineCopy(l, default) ==
    LET new == Cardinality(DOMAIN lines) + 1
        d   == LineCopyDefault(default)
        db  == [err |-> NoError, cards |-> cards, seq |-> seq, nextId |-> nextId, new |-> {}]
        r   == IF d.gift_cards = None THEN db
               ELSE CopyLineCards(db, SortedSeq(LineGiftCards(cards, l)), new)
    IN  /\ new <= MaxLines
        /\ Commit("line_copy", {}, r)
        /\ lines' = IF r.err # NoError THEN lines
                    ELSE [x \in DOMAIN lines \cup {new} |->
                            IF x \in DOMAIN lines THEN lines[x]
                            ELSE [lines[l] EXCEPT
                                    !.sale = IF d.sale = Absent THEN @ ELSE d.sale,
                                    !.invoice_lines = FALSE]]
        /\ UNCHANGED <<txns, sales, liability_account, result>>

\* Sale.process: the base step, then the gift cards of the sales it left
\* confirmed, processing or done
Process(batch, after) ==
    LET db == [err |-> NoError, cards |-> cards, seq |-> seq, nextId |-> nextId, new |-> {}]
        r  == ProcessSales(db, batch, after)
    IN  /\ \A s \in SeqRange(batch) : after[s] \in BaseProcessOutcomes(sales[s])
        /\ \A s \in SaleIds \ SeqRange(batch) : after[s] = sales[s]
        /\ Commit("process", {}, r)
        /\ sales' = IF r.err = NoError THEN after ELSE sales
        /\ UNCHANGED <<txns, lines, liability_account, result>>

\* Sale.process when the base step raises
ProcessFails ==
    /\ last' = Ran("process", {}, "base_error")
    /\ UNCHANGED <<cards, nextId, seq, txns, sales, lines, liability_account, result>>

GetInvoiceLine(l, invoice_type) ==
    /\ result' = [line |-> l, invoice_type |-> invoice_type] @@ get_invoice_line(l, invoice_type)
    /\ last' = Ran("get_invoice_line", {}, result'.err)
    /\ UNCHANGED <<cards, nextId, seq, txns, sales, lines, liability_account>>

----------------------------------------------------------------------------
(* Specifications *)

\* the gift card handlers, and the sales issuing gift cards
Next ==
    \/ \E vlist \in CreateVLists : Create(vlist)
    \/ \E id \in DOMAIN cards, default \in CopyDefaults : Copy(id, default)
    \/ \E batch \in Batches : Activate(batch)
    \/ \E batch \in Batches : Draft(batch)
    \/ \E batch \in Batches : Cancel(batch)
    \/ \E batch \in Batches : Delete(batch)
    \/ \E s \in SaleIds : Confirm(s)
    \/ \E batch \in DistinctSeqs(SaleIds), after \in [SaleIds -> SaleStates] :
          Process(batch, after)
    \/ ProcessFails

Spec == Init /\ [][Next]_vars

\* the gift card handlers alone
InitCards == Init /\ lines[1].quantity = 4

NextCards ==
    \/ \E vlist \in CreateVLists : Create(vlist)
    \/ \E id \in DOMAIN cards, default \in CopyDefaults : Copy(id, default)
    \/ \E batch \in Batches : Activate(batch)
    \/ \E batch \in Batches : Draft(batch)
    \/ \E batch \in Batches : Cancel(batch)
    \/ \E batch \in Batches : Delete(batch)

SpecCards == InitCards /\ [][NextCards]_vars

\* gift cards with the payment gateway writing transactions against them
NextLedger ==
    \/ \E v \in CreateValues, l \in {Absent, 1} :
          v.number = Absent /\ Create(<<[v EXCEPT !.sale_line = l]>>)
    \/ \E id \in DOMAIN cards, default \in CopyDefaults : Copy(id, default)
    \/ \E batch \in Batches : Activate(batch)
    \/ \E batch \in Batches : Cancel(batch)
    \/ \E batch \in Batches : Delete(batch)
    \/ \E id \in DOMAIN cards, amount \in TxnAmounts : TxnCreate(id, amount)
    \/ \E t \in DOMAIN txns, st \in TxnStates : TxnWrite(t, st)

SpecLedger == InitCards /\ [][NextLedger]_vars

\* the sales and their lines, copied and processed, and what is done to the
\* issued cards short of deleting them
NextSale ==
    \/ \E s \in SaleIds : Confirm(s)
    \/ \E l \in DOMAIN lines, default \in LineCopyDefaults : SaleLineCopy(l, default)
    \/ \E batch \in DistinctSeqs(SaleIds), after \in [SaleIds -> SaleStates] :
          Process(batch, after)
    \/ ProcessFails
    \/ \E id \in DOMAIN cards, default \in CopyDefaults : Copy(id, default)
    \/ \E batch \in Batches : Activate(batch)
    \/ \E batch \in Batches : Draft(batch)
    \/ \E batch \in Batches : Cancel(batch)

SpecSale == Init /\ [][NextSale]_vars

\* get_invoice_line over the sale lines and configurations it can meet
InitInvoice ==
    /\ cards = << >>
    /\ nextId = 1
    /\ seq = 1
    /\ txns = << >>
    /\ sales = [s \in SaleIds |-> "confirmed"]
    /\ \E q \in Quantities, gc \in BOOLEAN, inv \in BOOLEAN, n \in {1, 2} :
          lines = <<[InitLine(1, gc, q, n) EXCEPT !.invoice_lines = inv]>>
    /\ liability_account \in LiabilityAccounts
    /\ last = Ran("init", {}, NoError)
    /\ result = NoResult

NextInvoice ==
    \E l \in DOMAIN lines, invoice_type \in InvoiceTypes : GetInvoiceLine(l, invoice_type)

SpecInvoice == InitInvoice /\ [][NextInvoice]_vars

----------------------------------------------------------------------------
(* Properties *)

DeclaredPairs ==
    { <<"draft", "active">>, <<"active", "canceled">>,
      <<"draft", "canceled">>, <<"canceled", "draft">> }

Kept == DOMAIN cards \cap DOMAIN cards'

\* the cards a step creates
Created == DOMAIN cards' \ DOMAIN cards

\* a call of a workflow button for `target` leaves the cards of its batch whose
\* pair is not declared as they are
Undeclared(batch, target) ==
    \A c \in batch :
        <<cards[c].state, target>> \notin DeclaredPairs => cards'[c].state = cards[c].state

\* C1: every change of a gift card's state is one of the four declared pairs
\* draft->active, active->canceled, draft->canceled, canceled->draft, and an
\* activate, draft or cancel call on a card whose (state, target) pair is not
\* declared leaves the state of that card unchanged.
C1_DeclaredTransitionsOnly ==
    [][ /\ \A c \in Kept :
             cards'[c].state # cards[c].state
                => <<cards[c].state, cards'[c].state>> \in DeclaredPairs
        /\ \A batch \in Batches :
             /\ (last'.op = "activate" /\ Activate(batch)) => Undeclared(batch, "active")
             /\ (last'.op = "draft" /\ Draft(batch)) => Undeclared(batch, "draft")
             /\ (last'.op = "cancel" /\ Cancel(batch)) => Undeclared(batch, "canceled") ]_vars

\* draft was called on active cards only and left them active
C1_Witness ==
    /\ last.op = "draft"
    /\ DOMAIN cards # {}
    /\ \A c \in DOMAIN cards : cards[c].state = "active"

\* C6: a delete whose batch holds an active card fails with
\* deletion_not_allowed and removes no card, and a delete whose batch holds
\* draft, canceled or used cards only removes exactly the cards of the batch.
C6_ActiveNotDeleted ==
    [][ \A batch \in Batches :
          (last'.op = "delete" /\ Delete(batch)) =>
            IF \E c \in batch : cards[c].state = "active"
            THEN last'.err = "deletion_not_allowed" /\ cards' = cards
            ELSE /\ last'.err = NoError
                 /\ DOMAIN cards' = DOMAIN cards \ batch
                 /\ \A c \in DOMAIN cards' : cards'[c] = cards[c] ]_vars

\* a delete of an active card together with a card that is not active was
\* refused, and both cards are still there
C6_Witness ==
    /\ last.op = "delete"
    /\ last.err = "deletion_not_allowed"
    /\ last.arg \subseteq DOMAIN cards
    /\ \E c, d \in last.arg : cards[c].state = "active" /\ cards[d].state # "active"

\* the sum of the amounts of the transactions S
RECURSIVE Total(_)
Total(S) ==
    IF S = {} THEN 0
    ELSE LET t == CHOOSE x \in S : TRUE IN txns[t].amount + Total(S \ {t})

TxnsOf(c, st) == {t \in DOMAIN txns : txns[t].gift_card = c /\ txns[t].state = st}

RECURSIVE Booked(_)
Booked(C) ==
    IF C = {} THEN 0
    ELSE LET c == CHOOSE x \in C : TRUE
         IN  get_amount(c, "amount_authorized") + get_amount(c, "amount_captured")
               + Booked(C \ {c})

\* C2: for every gift card amount_authorized is the sum of the amounts of its
\* authorized transactions, amount_captured the sum of its posted ones and
\* amount_available is amount - amount_authorized - amount_captured; what the
\* cards book together is the total of the transactions that are authorized or
\* posted and on an existing card, so no other transaction contributes.
C2_Balances ==
    /\ \A c \in DOMAIN cards :
          /\ get_amount(c, "amount_authorized") = Total(TxnsOf(c, "authorized"))
          /\ get_amount(c, "amount_captured") = Total(TxnsOf(c, "posted"))
          /\ get_amount(c, "amount_available")
                = cards[c].amount - Total(TxnsOf(c, "authorized")) - Total(TxnsOf(c, "posted"))
    /\ Booked(DOMAIN cards)
          = Total(DOMAIN txns)
            - Total({t \in DOMAIN txns : \/ txns[t].gift_card \notin DOMAIN cards
                                         \/ txns[t].state \notin {"authorized", "posted"}})

\* two cards, one with an authorized transaction and one with a posted
\* transaction of another amount
C2_Witness ==
    \E c, d \in DOMAIN cards :
        /\ c # d
        /\ \E t \in TxnsOf(c, "authorized"), u \in TxnsOf(d, "posted") :
              txns[t].amount # txns[u].amount
        /\ get_amount(c, "amount_available") < cards[c].amount

\* C8: a successful GiftCard.copy, whatever default the caller hands over,
\* creates exactly one card: in state draft, without sale line, without payment
\* transactions, numbered from the sequence and differently from the original,
\* with amount_available equal to its amount; the cards that existed and all
\* transactions are unchanged.
C8_CopyIsFresh ==
    [][ \A id \in DOMAIN cards, default \in CopyDefaults, new \in {nextId} :
          (last'.op = "copy" /\ last'.err = NoError /\ Copy(id, default)) =>
             /\ Created = {new}
             /\ cards'[new].state = "draft"
             /\ cards'[new].sale_line = None
             /\ \A t \in DOMAIN txns' : txns'[t].gift_card # new
             /\ cards'[new].number = seq
             /\ seq' = seq + 1
             /\ cards'[new].number # cards[id].number
             /\ get_amount(new, "amount_available")' = cards'[new].amount
             /\ \A c \in DOMAIN cards : cards'[c] = cards[c]
             /\ txns' = txns ]_vars

\* an active card with a sale line and an authorized transaction was copied
C8_Witness ==
    /\ last.op = "copy"
    /\ last.err = NoError
    /\ \E id \in last.arg :
          /\ id \in DOMAIN cards
          /\ cards[id].state = "active"
          /\ cards[id].sale_line # None
          /\ TxnsOf(id, "authorized") # {}
          /\ nextId - 1 \in DOMAIN cards
          /\ cards[nextId - 1].state = "draft"

\* C7: get_invoice_line of a gift card line for out_invoice returns no line
\* when the sale line has invoice lines already; otherwise it fails with a
\* user error and returns nothing when no liability account is configured,
\* and else returns one invoice line on the liability account with the unit
\* price, quantity, description and origin of the sale line.  For a line that
\* is no gift card, or another invoice type, it returns what the base
\* implementation returns.
C7_InvoiceLine ==
    result.line # None =>
        LET l == lines[result.line]
        IN  IF l.is_gift_card /\ result.invoice_type = "out_invoice"
            THEN IF l.invoice_lines
                 THEN result.err = NoError /\ result.value = << >>
                 ELSE IF liability_account = None
                 THEN result.err # NoError /\ result.value = << >>
                 ELSE /\ result.err = NoError
                      /\ Len(result.value) = 1
                      /\ result.value[1].account = liability_account
                      /\ result.value[1].unit_price = l.unit_price
                      /\ result.value[1].quantity = l.quantity
                      /\ result.value[1].description = l.description
                      /\ result.value[1].origin = result.line
            ELSE /\ result.err = BaseGetInvoiceLine(result.line, result.invoice_type).err
                 /\ result.value = BaseGetInvoiceLine(result.line, result.invoice_type).value

\* get_invoice_line failed for a gift card line that is not invoiced yet,
\* no liability account being configured
C7_Witness ==
    /\ result.line # None
    /\ lines[result.line].is_gift_card
    /\ ~lines[result.line].invoice_lines
    /\ result.invoice_type = "out_invoice"
    /\ liability_account = None
    /\ result.err = "liability_account_missing"

\* int() of a quantity given in halves, as the integer part of its magnitude
\* with its sign
Truncated(h) ==
    LET mag == IF h < 0 THEN -h ELSE h
        int == CHOOSE n \in 0 .. mag : 2 * n <= mag /\ mag < 2 * (n + 1)
    IN  IF h < 0 THEN -int ELSE int

\* the cards a step creates for line l
CreatedFor(l) == {c \in Created : cards'[c].sale_line = l}

\* whether process, run on `batch`, is to issue cards for line l
ToIssue(batch, l) ==
    /\ lines[l].sale \in SeqRange(batch)
    /\ sales'[lines[l].sale] \in {"confirmed", "processing", "done"}
    /\ lines[l].is_gift_card
    /\ LineGiftCards(cards, l) = {}

\* what a returning process has done, `count` giving the number of cards a
\* line of some quantity is to get
Issued(batch, count(_)) ==
    /\ \A c \in Created : cards'[c].sale_line \in DOMAIN lines
    /\ \A c \in Kept : cards'[c] = cards[c]
    /\ \A l \in DOMAIN lines :
          IF ToIssue(batch, l)
          THEN /\ Cardinality(CreatedFor(l)) = count(lines[l].quantity)
               /\ \A c \in CreatedFor(l) :
                     /\ cards'[c].message = lines[l].message
                     /\ cards'[c].state = "active"
          ELSE CreatedFor(l) = {}

ProcessReturns(batch) ==
    /\ last'.op = "process"
    /\ last'.err = NoError
    /\ \E after \in [SaleIds -> SaleStates] : Process(batch, after)

\* C4 as stated: a process that returns has created exactly int(quantity)
\* active gift cards, linked to the line and with its message, for every gift
\* card line without gift cards of every processed sale that the base step
\* left confirmed, processing or done, and no other gift card.
C4_AsStated ==
    [][ \A batch \in DistinctSeqs(SaleIds) :
          ProcessReturns(batch) => Issued(batch, LAMBDA q : Truncated(q)) ]_vars

\* C4 amended: the same with max(0, int(quantity)) cards for the line, a line
\* of a quantity below 1 getting no card.
C4_IssuedByProcess ==
    [][ \A batch \in DistinctSeqs(SaleIds) :
          ProcessReturns(batch) => Issued(batch, LAMBDA q : Max(0, Truncated(q))) ]_vars

\* process has returned with two sales done: one gift card line of quantity 2
\* has its two active cards, the line that is no gift card line has none
C4_Witness ==
    /\ last.op = "process"
    /\ last.err = NoError
    /\ \A s \in SaleIds : sales[s] = "done"
    /\ \E l, k \in DOMAIN lines :
          /\ lines[l].is_gift_card
          /\ lines[l].quantity = 4
          /\ Cardinality(LineGiftCards(cards, l)) = 2
          /\ \A c \in LineGiftCards(cards, l) :
                cards[c].state = "active" /\ cards[c].message = lines[l].message
          /\ ~lines[k].is_gift_card
          /\ LineGiftCards(cards, k) = {}

\* C5 as stated: after a process that returned, and whatever follows it, no sale
\* line of a processed sale has more gift cards than int(quantity).
C5_AsStated ==
    \A l \in DOMAIN lines :
        sales[lines[l].sale] \in {"processing", "done"}
            => Cardinality(LineGiftCards(cards, l)) <= Truncated(lines[l].quantity)

\* C5 amended: process creates gift cards for a line only when the line has
\* none, a line keeps the gift cards it has, and so no sale line ever has more
\* gift cards than max(0, int(quantity)), whatever process, activate, draft,
\* cancel, GiftCard.copy and SaleLine.copy calls are made.
C5_IssuedOnce ==
    /\ [](\A l \in DOMAIN lines :
            Cardinality(LineGiftCards(cards, l)) <= Max(0, Truncated(lines[l].quantity)))
    /\ [][ \A l \in DOMAIN lines :
             /\ CreatedFor(l) # {} => LineGiftCards(cards, l) = {}
             /\ LineGiftCards(cards, l) \subseteq LineGiftCards(cards', l) ]_vars

\* process has run again on a sale whose line had its card issued, and
\* canceled since: the line still has that one card
C5_Witness ==
    /\ last.op = "process"
    /\ last.err = NoError
    /\ \E l \in DOMAIN lines :
          /\ Truncated(lines[l].quantity) = 1
          /\ sales[lines[l].sale] \in {"confirmed", "processing", "done"}
          /\ Cardinality(LineGiftCards(cards, l)) = 1
          /\ \A c \in LineGiftCards(cards, l) : cards[c].state = "canceled"

Supplied(v) == v.number \notin {None, Absent}

\* C3: no two gift cards have the same number; a create that supplies a
\* number held by an existing card is rejected and leaves the cards as they
\* are; the cards of a create that went through and supplied no number for
\* them are numbered with the values it drew from the sequence.
C3_UniqueNumbers ==
    /\ [](\A c, d \in DOMAIN cards : cards[c].number = cards[d].number => c = d)
    /\ [][ \A vlist \in CreateVLists :
             (last'.op = "create" /\ Create(vlist)) =>
               /\ (\E i \in DOMAIN vlist, c \in DOMAIN cards :
                      Supplied(vlist[i]) /\ cards[c].number = vlist[i].number)
                    => (last'.err = "number_uniq" /\ cards' = cards /\ nextId' = nextId)
               /\ last'.err = NoError =>
                    /\ seq' - seq = Cardinality({i \in DOMAIN vlist : ~Supplied(vlist[i])})
                    /\ \A i \in DOMAIN vlist :
                          IF Supplied(vlist[i])
                          THEN cards'[nextId + i - 1].number = vlist[i].number
                          ELSE cards'[nextId + i - 1].number \in seq .. seq' - 1 ]_vars

\* a create was rejected although the sequence is ahead of every number in
\* use: it supplied the number 2, which a card holds
C3_Witness ==
    /\ last.op = "create"
    /\ last.err = "number_uniq"
    /\ \E c \in DOMAIN cards : cards[c].number \in ManualNumbers
    /\ \A c \in DOMAIN cards : cards[c].number < seq

\* the state a button for `target` leaves a card of state st in
After(st, target) == WorkflowTransition(<<[state |-> st]>>, {1}, target)[1].state

Buttons == {"active", "draft", "canceled"}

ByOneCall(S) == S \cup {After(st, target) : st \in S, target \in Buttons}

Reachable(st) == ByOneCall(ByOneCall(ByOneCall({st})))

\* C9: a card is in state used only if a create was handed that state for it:
\* no handler moves a card to used, and create without a state, copy and sale
\* processing create no used card; from each of draft, active and canceled the
\* buttons lead to canceled.
C9_UsedUnreachable ==
    /\ [][ /\ \A c \in Kept : cards'[c].state = "used" => cards[c].state = "used"
           /\ \A c \in Created :
                 cards'[c].state = "used" =>
                    \E vlist \in CreateVLists :
                        /\ last'.op = "create"
                        /\ Create(vlist)
                        /\ c - nextId + 1 \in DOMAIN vlist
                        /\ vlist[c - nextId + 1].state = "used" ]_vars
    /\ [](\A c \in DOMAIN cards :
             cards[c].state # "used" => "canceled" \in Reachable(cards[c].state))
    /\ [](\A st \in {"draft", "active", "canceled"} :
             "canceled" \in Reachable(st) /\ "used" \notin Reachable(st))

\* a card issued by process (active then) was canceled and set back to draft
C9_Witness ==
    /\ last.op = "draft"
    /\ \E c \in DOMAIN cards : cards[c].sale_line # None /\ cards[c].state = "draft"

====
